---- MODULE Spec2Model ----
(***************************************************************************)
(* Model of the notebook                                                   *)
(*   tutorials/phidata-mixture-of-agents/Mixture-of-Agents-Phidata-Groq    *)
(* The notebook defines three tools (get_game_info, get_batting_stats,     *)
(* get_pitching_stats), seven assistants, and one pipeline cell that runs  *)
(* researcher -> statisticians -> three writers -> editor, one blocking    *)
(* call after the other, with no exception handler anywhere.               *)
(*                                                                         *)
(* Three specifications share the variables:                               *)
(*   Spec       the cells of the notebook run in order (pipeline),         *)
(*   SpecFetch  get_game_info applied to a schedule and a team fragment,   *)
(*   SpecStats  get_batting_stats / get_pitching_stats applied to a box    *)
(*              score.                                                     *)
(* A text is a sequence of tokens; an f-string and str.join concatenate.   *)
(* A string that the code inspects character by character (a schedule      *)
(* summary, a team-name fragment) is a sequence of one-character strings.  *)
(***************************************************************************)
EXTENDS Integers, Sequences, FiniteSets, TLC

VARIABLES
    pc,                \* position of the notebook: the next statement to run
    bound,             \* the global names assigned so far (unbound names
                       \* hold a placeholder)
    now,               \* the calendar day of datetime.now()
    default_date,      \* global default_date (cell at line 268)
    user_prompt,       \* global user_prompt (cell at line 353)
    fetch_query,       \* the arguments the researcher passes to get_game_info
    run_day,           \* the day on which mlb_researcher.run was invoked
    game_information,  \* globals of the pipeline cell
    batting_stats,
    pitching_stats,
    stats,
    llama_writer,
    gemma_writer,
    mixtral_writer,
    editor_inputs,
    editor,
    printed,           \* what print(editor) wrote
    calls,             \* per assistant: how many times its run() was called
    inputs,            \* per assistant: the message its run() was given
    completed,         \* the assistants whose run() returned, in that order
    error,             \* the exception that aborted the cell, NoError if none
    tool_pc,           \* SpecFetch / SpecStats: "idle", "call", "returned"
    tool_in,           \* the arguments of the tool call
    tool_out           \* what the tool call returned or raised

vars == << pc, bound, now, default_date, user_prompt, fetch_query, run_day,
           game_information, batting_stats, pitching_stats, stats,
           llama_writer, gemma_writer, mixtral_writer, editor_inputs, editor,
           printed, calls, inputs, completed, error,
           tool_pc, tool_in, tool_out >>

pipelineData == << bound, default_date, user_prompt, fetch_query, run_day,
                   game_information, batting_stats, pitching_stats, stats,
                   llama_writer, gemma_writer, mixtral_writer, editor_inputs,
                   editor, printed, calls, inputs, completed, error >>

toolVars == << tool_pc, tool_in, tool_out >>


----------------------------------------------------------------------------
(* Bounds of the model.                                                    *)

MaxDay == 3          \* the clock runs over days FirstDay .. MaxDay
MaxSched == 2        \* entries of one day's schedule
MaxPlayers == 2      \* entries of playerInfo
MaxRows == 1         \* participant rows per side, the header row excluded

FirstDay == 1        \* the first day of the calendar

\* Placeholders of names that are not assigned yet.
NoDate == FirstDay - 1
NoText == << >>
NoPrompt == [ team |-> "none", date |-> NoDate ]
NoQuery == [ game_date |-> NoDate, team_name |-> "none" ]
NoError == [ at |-> "none", kind |-> "none" ]
NoToolIn == [ fn |-> "none" ]
NoToolOut == [ kind |-> "none" ]

----------------------------------------------------------------------------
(* Texts.                                                                  *)

\* "sep".join(parts) (line 416)
RECURSIVE Join(_, _)
Join(parts, sep) ==
    IF Len(parts) = 0 THEN << >>
    ELSE IF Len(parts) = 1 THEN parts[1]
    ELSE parts[1] \o sep \o Join(Tail(parts), sep)

\* needle occurs in hay as a contiguous run: Python's `needle in hay`
Occurs(needle, hay) ==
    \E i \in 0..(Len(hay) - Len(needle)) :
        \A j \in 1..Len(needle) : hay[i + j] = needle[j]

\* The f-string of line 408.
StatsText(batting, pitching) ==
    << "Statistical summaries for the game:", "Batting stats:" >> \o batting
        \o << "Pitching stats:" >> \o pitching

\* The assistants, in the order the notebook declares them (lines 270-341).
Units == { "mlb_researcher", "mlb_batting_statistician",
           "mlb_pitching_statistician", "mlb_writer_llama",
           "mlb_writer_gemma", "mlb_writer_mixtral", "mlb_editor" }

Statisticians == { "mlb_batting_statistician", "mlb_pitching_statistician" }

\* The writers in declaration order (lines 310, 325, 331).
WriterDecl == << "mlb_writer_llama", "mlb_writer_gemma", "mlb_writer_mixtral" >>

Writers == { WriterDecl[i] : i \in 1..Len(WriterDecl) }

\* What a model may answer: the text is the service's choice.  Two answers
\* per assistant are enough to tell one assistant's text from another's.
Answers(unit) ==
    CASE unit = "mlb_researcher"            -> { << "game_id: 1" >>, << "game_id: 2" >> }
      [] unit = "mlb_batting_statistician"  -> { << "bat-a" >>, << "bat-b" >> }
      [] unit = "mlb_pitching_statistician" -> { << "pit-a" >>, << "pit-b" >> }
      [] unit \in Writers                   -> { << "recap-a" >>, << "recap-b" >> }
      [] OTHER                              -> { << "final-a" >>, << "final-b" >> }

\* The user's question: a team fragment and, possibly, a date.
Teams == { "Yankees", "Orioles" }
Dates == FirstDay..MaxDay

Prompts == [ team : Teams, date : Dates \cup {NoDate} ]

PromptText(p) == << "recap", p.team, IF p.date = NoDate THEN "no date" ELSE "dated" >>

----------------------------------------------------------------------------
(* The pipeline: the cells of the notebook.                                *)

\* The statements of the notebook in program order.
PcOrder == << "define", "prompt", "researcher", "batting", "pitching",
              "stats", "llama", "gemma", "mixtral", "inputs", "editor",
              "print", "Done" >>

PcIndex(p) == CHOOSE i \in 1..Len(PcOrder) : PcOrder[i] = p

\* The statement after p in the cell.
NextPc(p) == PcOrder[PcIndex(p) + 1]

\* A cell that ran the failing statement again instead of stopping.
AfterRaise_Retry(p) == p

\* An exception raised by a statement is handled nowhere: the cell stops.
AfterRaise(p) == "Failed"

\* default_date = datetime.now().date() - timedelta(1), evaluated when the
\* cell that defines the assistants runs (line 268), and pasted into the
\* researcher's instructions (line 274).
Yesterday(day) == day - 1

\* The date the researcher passes to get_game_info, as its instructions
\* (line 274) tell it: the user's date, else the date in the instructions.
InstructedDate(prompt, dflt) ==
    IF prompt.date = NoDate THEN dflt ELSE prompt.date

\* A list built with the first two drafts exchanged.
EditorInputs_Swapped(l, g, m) == << g, l, m >>

\* editor_inputs = [llama_writer, gemma_writer, mixtral_writer] (line 415)
EditorInputs(l, g, m) == << l, g, m >>

\* The message each statement hands to its assistant's run().
MessageOf(p) ==
    CASE p = "researcher" -> PromptText(user_prompt)
      [] p = "batting"    -> game_information
      [] p = "pitching"   -> game_information
      [] p = "llama"      -> stats
      [] p = "gemma"      -> stats
      [] p = "mixtral"    -> stats
      [] p = "editor"     -> Join(editor_inputs, << "\n" >>)

UnitOf(p) ==
    CASE p = "researcher" -> "mlb_researcher"
      [] p = "batting"    -> "mlb_batting_statistician"
      [] p = "pitching"   -> "mlb_pitching_statistician"
      [] p = "llama"      -> "mlb_writer_llama"
      [] p = "gemma"      -> "mlb_writer_gemma"
      [] p = "mixtral"    -> "mlb_writer_mixtral"
      [] p = "editor"     -> "mlb_editor"

Init ==
    /\ pc = "define"
    /\ bound = {}
    /\ now \in FirstDay + 1 .. MaxDay
    /\ default_date = NoDate
    /\ user_prompt = NoPrompt
    /\ fetch_query = NoQuery
    /\ run_day = NoDate
    /\ game_information = NoText
    /\ batting_stats = NoText
    /\ pitching_stats = NoText
    /\ stats = NoText
    /\ llama_writer = NoText
    /\ gemma_writer = NoText
    /\ mixtral_writer = NoText
    /\ editor_inputs = << >>
    /\ editor = NoText
    /\ printed = << >>
    /\ calls = [ u \in Units |-> 0 ]
    /\ inputs = [ u \in Units |-> NoText ]
    /\ completed = << >>
    /\ error = NoError
    /\ tool_pc = "idle"
    /\ tool_in = NoToolIn
    /\ tool_out = NoToolOut

\* Time passes while the notebook is open.
Tick ==
    /\ now < MaxDay
    /\ now' = now + 1
    /\ UNCHANGED << pc, pipelineData, toolVars >>

\* The cell of lines 268-341.
DefineAssistants ==
    /\ pc = "define"
    /\ default_date' = Yesterday(now)
    /\ bound' = bound \cup {"default_date"}
    /\ pc' = NextPc(pc)
    /\ UNCHANGED << now, user_prompt, fetch_query, run_day, game_information,
                    batting_stats, pitching_stats, stats, llama_writer,
                    gemma_writer, mixtral_writer, editor_inputs, editor,
                    printed, calls, inputs, completed, error, toolVars >>

\* The cell of line 353.
SetPrompt ==
    /\ pc = "prompt"
    /\ \E p \in Prompts : user_prompt' = p
    /\ bound' = bound \cup {"user_prompt"}
    /\ pc' = NextPc(pc)
    /\ UNCHANGED << now, default_date, fetch_query, run_day, game_information,
                    batting_stats, pitching_stats, stats, llama_writer,
                    gemma_writer, mixtral_writer, editor_inputs, editor,
                    printed, calls, inputs, completed, error, toolVars >>

\* assistant.run(message, stream=False) at statement p: the call is made
\* once; the service answers with a text, or the call raises.
RunReturns(p, text) ==
    /\ calls' = [ calls EXCEPT ![UnitOf(p)] = @ + 1 ]
    /\ inputs' = [ inputs EXCEPT ![UnitOf(p)] = MessageOf(p) ]
    /\ completed' = Append(completed, [ unit |-> UnitOf(p), text |-> text ])
    /\ pc' = NextPc(p)
    /\ error' = error

RunRaises(p) ==
    /\ calls' = [ calls EXCEPT ![UnitOf(p)] = @ + 1 ]
    /\ inputs' = [ inputs EXCEPT ![UnitOf(p)] = MessageOf(p) ]
    /\ completed' = completed
    /\ pc' = AfterRaise(p)
    /\ error' = [ at |-> p, kind |-> "ServiceError" ]

\* game_information = mlb_researcher.run(user_prompt, stream=False)  (403)
Researcher ==
    /\ pc = "researcher"
    /\ run_day' = now
    /\ \/ \E text \in Answers(UnitOf(pc)) :
             /\ RunReturns(pc, text)
             /\ game_information' = text
             /\ bound' = bound \cup {"game_information"}
             /\ fetch_query' = [ game_date |-> InstructedDate(user_prompt, default_date),
                                 team_name |-> user_prompt.team ]
       \/ /\ RunRaises(pc)
          /\ UNCHANGED << game_information, fetch_query, bound >>
    /\ UNCHANGED << now, default_date, user_prompt, batting_stats,
                    pitching_stats, stats, llama_writer, gemma_writer,
                    mixtral_writer, editor_inputs, editor, printed, toolVars >>

\* batting_stats = mlb_batting_statistician.run(game_information, ...) (405)
BattingStatistician ==
    /\ pc = "batting"
    /\ \/ \E text \in Answers(UnitOf(pc)) :
             RunReturns(pc, text) /\ batting_stats' = text
                /\ bound' = bound \cup {"batting_stats"}
       \/ RunRaises(pc) /\ UNCHANGED << batting_stats, bound >>
    /\ UNCHANGED << now, default_date, user_prompt, fetch_query, run_day,
                    game_information, pitching_stats, stats, llama_writer,
                    gemma_writer, mixtral_writer, editor_inputs, editor,
                    printed, toolVars >>

\* pitching_stats = mlb_pitching_statistician.run(game_information, ...) (406)
PitchingStatistician ==
    /\ pc = "pitching"
    /\ \/ \E text \in Answers(UnitOf(pc)) :
             RunReturns(pc, text) /\ pitching_stats' = text
                /\ bound' = bound \cup {"pitching_stats"}
       \/ RunRaises(pc) /\ UNCHANGED << pitching_stats, bound >>
    /\ UNCHANGED << now, default_date, user_prompt, fetch_query, run_day,
                    game_information, batting_stats, stats, llama_writer,
                    gemma_writer, mixtral_writer, editor_inputs, editor,
                    printed, toolVars >>

\* stats = f"Statistical summaries ..."  (408)
FormatStats ==
    /\ pc = "stats"
    /\ stats' = StatsText(batting_stats, pitching_stats)
    /\ bound' = bound \cup {"stats"}
    /\ pc' = NextPc(pc)
    /\ UNCHANGED << now, default_date, user_prompt, fetch_query, run_day,
                    game_information, batting_stats, pitching_stats,
                    llama_writer, gemma_writer, mixtral_writer, editor_inputs,
                    editor, printed, calls, inputs, completed, error,
                    toolVars >>

\* llama_writer = mlb_writer_llama.run(stats, stream=False)  (409)
LlamaWriter ==
    /\ pc = "llama"
    /\ \/ \E text \in Answers(UnitOf(pc)) :
             RunReturns(pc, text) /\ llama_writer' = text
                /\ bound' = bound \cup {"llama_writer"}
       \/ RunRaises(pc) /\ UNCHANGED << llama_writer, bound >>
    /\ UNCHANGED << now, default_date, user_prompt, fetch_query, run_day,
                    game_information, batting_stats, pitching_stats, stats,
                    gemma_writer, mixtral_writer, editor_inputs, editor,
                    printed, toolVars >>

\* gemma_writer = mlb_writer_gemma.run(stats, stream=False)  (410)
GemmaWriter ==
    /\ pc = "gemma"
    /\ \/ \E text \in Answers(UnitOf(pc)) :
             RunReturns(pc, text) /\ gemma_writer' = text
                /\ bound' = bound \cup {"gemma_writer"}
       \/ RunRaises(pc) /\ UNCHANGED << gemma_writer, bound >>
    /\ UNCHANGED << now, default_date, user_prompt, fetch_query, run_day,
                    game_information, batting_stats, pitching_stats, stats,
                    llama_writer, mixtral_writer, editor_inputs, editor,
                    printed, toolVars >>

\* mixtral_writer = mlb_writer_mixtral.run(stats, stream=False)  (411)
MixtralWriter ==
    /\ pc = "mixtral"
    /\ \/ \E text \in Answers(UnitOf(pc)) :
             RunReturns(pc, text) /\ mixtral_writer' = text
                /\ bound' = bound \cup {"mixtral_writer"}
       \/ RunRaises(pc) /\ UNCHANGED << mixtral_writer, bound >>
    /\ UNCHANGED << now, default_date, user_prompt, fetch_query, run_day,
                    game_information, batting_stats, pitching_stats, stats,
                    llama_writer, gemma_writer, editor_inputs, editor,
                    printed, toolVars >>

\* editor_inputs = [llama_writer, gemma_writer, mixtral_writer]  (415)
CollectInputs ==
    /\ pc = "inputs"
    /\ editor_inputs' = EditorInputs(llama_writer, gemma_writer, mixtral_writer)
    /\ bound' = bound \cup {"editor_inputs"}
    /\ pc' = NextPc(pc)
    /\ UNCHANGED << now, default_date, user_prompt, fetch_query, run_day,
                    game_information, batting_stats, pitching_stats, stats,
                    llama_writer, gemma_writer, mixtral_writer, editor,
                    printed, calls, inputs, completed, error, toolVars >>

\* editor = mlb_editor.run("\n".join(editor_inputs), stream=False)  (416)
Editor ==
    /\ pc = "editor"
    /\ \/ \E text \in Answers(UnitOf(pc)) :
             RunReturns(pc, text) /\ editor' = text
                /\ bound' = bound \cup {"editor"}
       \/ RunRaises(pc) /\ UNCHANGED << editor, bound >>
    /\ UNCHANGED << now, default_date, user_prompt, fetch_query, run_day,
                    game_information, batting_stats, pitching_stats, stats,
                    llama_writer, gemma_writer, mixtral_writer, editor_inputs,
                    printed, toolVars >>

\* print(editor)  (418)
PrintEditor ==
    /\ pc = "print"
    /\ printed' = Append(printed, editor)
    /\ bound' = bound
    /\ pc' = NextPc(pc)
    /\ UNCHANGED << now, default_date, user_prompt, fetch_query, run_day,
                    game_information, batting_stats, pitching_stats, stats,
                    llama_writer, gemma_writer, mixtral_writer, editor_inputs,
                    editor, calls, inputs, completed, error, toolVars >>

Next ==
    \/ Tick
    \/ DefineAssistants
    \/ SetPrompt
    \/ Researcher
    \/ BattingStatistician
    \/ PitchingStatistician
    \/ FormatStats
    \/ LlamaWriter
    \/ GemmaWriter
    \/ MixtralWriter
    \/ CollectInputs
    \/ Editor
    \/ PrintEditor

Spec == Init /\ [][Next]_vars

----------------------------------------------------------------------------
(* The pipeline's properties.                                              *)

WriterPcs == { "llama", "gemma", "mixtral" }

\* run() of unit u returned a text.
Succeeded(u) == \E k \in DOMAIN completed : completed[k].unit = u

\* run() of unit u was called and raised.
Raised(u) == calls[u] > 0 /\ ~Succeeded(u)

NoWriterSucceeded == \A w \in Writers : ~Succeeded(w)

\* The fan-out (lines 409-415) is over: the cell went on to line 416 or
\* beyond, or it stopped in a writer or in the editor.
FanOutOver ==
    \/ pc \in { "editor", "print", "Done" }
    \/ pc = "Failed" /\ error.at \in WriterPcs \cup { "editor" }

\* The orchestrator states of the design, as positions of the cell:
\* researcher and statisticians fetch, line 408 holds the fetched context,
\* lines 409-411 generate, line 415 holds the drafts, lines 416-418
\* aggregate and hand the result out.
Stage(p) ==
    CASE p \in { "define", "prompt" }                   -> "Idle"
      [] p \in { "researcher", "batting", "pitching" }  -> "Fetching"
      [] p = "stats"                                    -> "FetchedContext"
      [] p \in WriterPcs                                -> "Generating"
      [] p = "inputs"                                   -> "Generated"
      [] p \in { "editor", "print" }                    -> "Aggregating"
      [] p = "Done"                                     -> "Done"
      [] OTHER                                          -> "Failed"

StageOrder == << "Idle", "Fetching", "FetchedContext", "Generating",
                 "Generated", "Aggregating", "Done", "Failed" >>

StageRank(st) == CHOOSE i \in 1..Len(StageOrder) : StageOrder[i] = st

\* C1: a writer whose service call fails yields a result marked as failed;
\* the failure does not abort the run, and the remaining writers are still
\* invoked.
C1_WriterFailureAbsorbed ==
    /\ \A w \in Writers : Raised(w) => error = NoError /\ pc # "Failed"
    /\ (pc \in { "Done", "Failed" } /\ \E w \in Writers : calls[w] > 0)
          => \A w \in Writers : calls[w] = 1

\* C2: whatever writers succeed or fail, once the fan-out is over
\* editor_inputs holds one entry per configured writer (three).
C2_ThreeResultsAlways ==
    FanOutOver => /\ "editor_inputs" \in bound
                  /\ Len(editor_inputs) = Len(WriterDecl)

\* C3: editor_inputs is in declaration order: slot i holds the text that
\* the i-th declared writer's run() returned.
C3_DeclarationOrder ==
    "editor_inputs" \in bound =>
        /\ Len(editor_inputs) = Len(WriterDecl)
        /\ \A i \in 1..Len(WriterDecl) :
              \E k \in DOMAIN completed :
                  /\ completed[k].unit = WriterDecl[i]
                  /\ completed[k].text = editor_inputs[i]

\* C3 witness: the list is built from drafts that differ from slot to slot.
C3_Witness ==
    /\ "editor_inputs" \in bound
    /\ editor_inputs[1] # editor_inputs[2]
    /\ editor_inputs[2] # editor_inputs[3]

\* C4: the fan-out ends in AllGeneratorsFailedError if and only if no writer
\* succeeded; with at least one success it returns its result sequence.
C4_AllFailedIffNoSuccess ==
    FanOutOver =>
        /\ (error.kind = "AllGeneratorsFailedError") <=> NoWriterSucceeded
        /\ (\E w \in Writers : Succeeded(w)) =>
              /\ error.at \notin WriterPcs
              /\ "editor_inputs" \in bound

\* C5: the editor's message holds no text of a failed writer, and the run
\* ends in InsufficientInputError exactly when no writer succeeded.
C5_FilterAndInsufficientInput ==
    FanOutOver =>
        /\ (error.kind = "InsufficientInputError") <=> NoWriterSucceeded
        /\ calls["mlb_editor"] > 0 =>
              inputs["mlb_editor"] =
                  Join(SelectSeq(editor_inputs, LAMBDA t : t # NoText), << "\n" >>)

\* C6: the cell only moves forward through the stages, every run() is
\* called at most once (exactly once in a run that reaches Done), and after
\* a failure no further call is issued.
C6_ForwardOnlyNoRetry ==
    /\ [][ /\ StageRank(Stage(pc')) >= StageRank(Stage(pc))
           /\ \A u \in Units : calls'[u] <= 1
           /\ error # NoError => calls' = calls /\ Stage(pc') = "Failed" ]_vars
    /\ [](pc = "Done" => \A u \in Units : calls[u] = 1)

\* C6 witness: a writer failed, the cell stopped, the editor was not called.
C6_Witness ==
    /\ pc = "Failed"
    /\ error.at \in WriterPcs
    /\ calls["mlb_editor"] = 0
    /\ calls["mlb_researcher"] = 1

\* C8: with no date in the question, the date passed to the fetch is the
\* day before the day mlb_researcher.run was invoked.
C8_DefaultIsYesterdayOfRun ==
    (fetch_query # NoQuery /\ user_prompt.date = NoDate)
        => fetch_query.game_date = Yesterday(run_day)

\* C9: every statistician and writer that was called received
\* game_information verbatim inside its message.
C9_ContextReachesEveryUnit ==
    \A u \in Statisticians \cup Writers :
        calls[u] > 0 => Occurs(game_information, inputs[u])

\* game_information is assigned once and not changed afterwards.
GameInformationFrozen ==
    [][ "game_information" \in bound => game_information' = game_information ]_vars

----------------------------------------------------------------------------
(* The tools (lines 150-213).  A call returns a value or raises.           *)

Return(v) == [ kind |-> "return", exc |-> "none", value |-> v ]
Raise(e) == [ kind |-> "raise", exc |-> e, value |-> << >> ]

\* Letters of the model's summaries and fragments, folded to lower case
\* as case=False does (line 159).
LowerOf == [ c \in { "Y", "O", "M", "C", "A", "R" } |->
               CASE c = "Y" -> "y" [] c = "O" -> "o" [] c = "M" -> "m"
                 [] c = "C" -> "c" [] c = "A" -> "a" [] c = "R" -> "r" ]

Lower(c) == IF c \in DOMAIN LowerOf THEN LowerOf[c] ELSE c

\* The same search with the letter case respected (case=True).
StrContains_CaseSensitive(summary, team_name) ==
    \E i \in 0..(Len(summary) - Len(team_name)) :
        \A j \in 1..Len(team_name) : summary[i + j] = team_name[j]

\* Series.str.contains(team_name, case=False, na=False) on one summary
\* (line 159); fragments of letters only, so the pattern is a literal.
StrContains(summary, team_name) ==
    \E i \in 0..(Len(summary) - Len(team_name)) :
        \A j \in 1..Len(team_name) :
            Lower(summary[i + j]) = Lower(team_name[j])

\* The rows statsapi.schedule may return for a date (line 157).
Games ==
    { [ game_id |-> 1, summary |-> << "Y", "a", "@", "O", "r" >>,
        home_name |-> "Orioles", home_score |-> 5,
        away_name |-> "Yankees", away_score |-> 9,
        winning_team |-> "Yankees", series_status |-> "NYY wins 2-1" ],
      [ game_id |-> 2, summary |-> << "M", "e", "@", "Y", "a" >>,
        home_name |-> "Yankees", home_score |-> 3,
        away_name |-> "Mets", away_score |-> 4,
        winning_team |-> "Mets", series_status |-> "NYM leads 1-0" ],
      [ game_id |-> 3, summary |-> << "O", "r", "@", "M", "e" >>,
        home_name |-> "Mets", home_score |-> 1,
        away_name |-> "Orioles", away_score |-> 0,
        winning_team |-> "Mets", series_status |-> "Series tied 1-1" ],
      [ game_id |-> 4, summary |-> << "C", "u", "@", "M", "a" >>,
        home_name |-> "Mariners", home_score |-> 2,
        away_name |-> "Cubs", away_score |-> 7,
        winning_team |-> "Cubs", series_status |-> "CHC leads 1-0" ] }

\* Sequences of at most n elements of S, none repeated.
RECURSIVE SeqsUpTo(_, _)
SeqsUpTo(S, n) ==
    IF n = 0 THEN { << >> }
    ELSE LET shorter == SeqsUpTo(S, n - 1)
         IN  shorter \cup
             { Append(q, x) : q \in { r \in shorter : Len(r) = n - 1 },
                              x \in S }

NoRepeat(q) == \A i, j \in DOMAIN q : i # j => q[i] # q[j]

DistinctSeqs(S, n) == { q \in SeqsUpTo(S, n) : NoRepeat(q) }

Schedules == DistinctSeqs(Games, MaxSched)

\* Team-name fragments a caller may pass: lower case, upper case, mixed
\* case, fragments that match several games, one that matches no game, and
\* the empty fragment.
Fragments == { << "y", "a" >>, << "O", "R" >>, << "M", "e" >>,
               << "c", "u" >>, << "x" >>, << >> }

\* json.dumps(game_info) (line 171): the keys in insertion order (lines
\* 162-168) with their values, strings and numbers told apart.
DumpGameInfo(d) ==
    << << "game_id", << "str", d.game_id >> >>,
       << "home_team", << "str", d.home_team >> >>,
       << "home_score", << "num", d.home_score >> >>,
       << "away_team", << "str", d.away_team >> >>,
       << "away_score", << "num", d.away_score >> >>,
       << "winning_team", << "str", d.winning_team >> >>,
       << "series_status", << "str", d.series_status >> >> >>

\* get_game_info with the filter of line 159 left out.
get_game_info_Unfiltered(sched, team_name) ==
    IF Len(sched) = 0 THEN Raise("KeyError")
    ELSE Return(DumpGameInfo(
            [ game_id |-> ToString(sched[1].game_id),
              home_team |-> sched[1].home_name,
              home_score |-> sched[1].home_score,
              away_team |-> sched[1].away_name,
              away_score |-> sched[1].away_score,
              winning_team |-> sched[1].winning_team,
              series_status |-> sched[1].series_status ]))

\* get_game_info (lines 150-171); sched is what statsapi.schedule returned
\* for game_date.  pd.DataFrame([]) has no column, so sched_df['summary']
\* raises KeyError (line 159); column.tolist()[0] of an empty selection
\* raises IndexError (line 162).
get_game_info(sched, team_name) ==
    IF Len(sched) = 0 THEN Raise("KeyError")
    ELSE LET game_info_df ==
                 \* sched_df[mask]: the rows that satisfy the mask, in order
                 SelectSeq(sched, LAMBDA g : StrContains(g.summary, team_name))
         IN  IF Len(game_info_df) = 0 THEN Raise("IndexError")
             ELSE Return(DumpGameInfo(
                     [ game_id |-> ToString(game_info_df[1].game_id),
                       home_team |-> game_info_df[1].home_name,
                       home_score |-> game_info_df[1].home_score,
                       away_team |-> game_info_df[1].away_name,
                       away_score |-> game_info_df[1].away_score,
                       winning_team |-> game_info_df[1].winning_team,
                       series_status |-> game_info_df[1].series_status ]))

InitFetch ==
    /\ pc = "define"
    /\ bound = {}
    /\ now = FirstDay + 1
    /\ default_date = NoDate
    /\ user_prompt = NoPrompt
    /\ fetch_query = NoQuery
    /\ run_day = NoDate
    /\ game_information = NoText
    /\ batting_stats = NoText
    /\ pitching_stats = NoText
    /\ stats = NoText
    /\ llama_writer = NoText
    /\ gemma_writer = NoText
    /\ mixtral_writer = NoText
    /\ editor_inputs = << >>
    /\ editor = NoText
    /\ printed = << >>
    /\ calls = [ u \in Units |-> 0 ]
    /\ inputs = [ u \in Units |-> NoText ]
    /\ completed = << >>
    /\ error = NoError
    /\ tool_pc = "call"
    /\ tool_in \in [ fn : { "get_game_info" }, sched : Schedules,
                     team_name : Fragments ]
    /\ tool_out = NoToolOut

\* One call of get_game_info(game_date, team_name).
GetGameInfo ==
    /\ tool_pc = "call"
    /\ tool_in.fn = "get_game_info"
    /\ tool_out' = get_game_info(tool_in.sched, tool_in.team_name)
    /\ tool_pc' = "returned"
    /\ UNCHANGED << pc, now, pipelineData, tool_in >>

NextFetch == GetGameInfo

SpecFetch == InitFetch /\ [][NextFetch]_vars

\* The summary holds the fragment, letter case ignored.
Mentions(summary, fragment) ==
    \E i \in 1..(Len(summary) + 1) :
        /\ i + Len(fragment) - 1 <= Len(summary)
        /\ \A j \in 1..Len(fragment) :
              Lower(summary[i + j - 1]) = Lower(fragment[j])

NoEntryMentions(sched, fragment) ==
    \A k \in DOMAIN sched : ~Mentions(sched[k].summary, fragment)

FetchReturned == tool_pc = "returned" /\ tool_in.fn = "get_game_info"

C7_EmptyScheduleReached ==
    FetchReturned /\ Len(tool_in.sched) = 0 /\ tool_out.exc = "KeyError"

----------------------------------------------------------------------------
(* get_batting_stats and get_pitching_stats (lines 174-213).               *)

\* Entries of boxscores['playerInfo'].  Two players share a boxscoreName.
Players ==
    { [ id |-> 1, fullName |-> "Aaron Judge", boxscoreName |-> "Judge" ],
      [ id |-> 2, fullName |-> "Juan Soto", boxscoreName |-> "Soto" ],
      [ id |-> 3, fullName |-> "Elmer Judge", boxscoreName |-> "Judge" ] }

\* Participant rows of awayBatters / homeBatters.  No player is called Rice.
BatterRows ==
    { [ name |-> "Judge", position |-> "CF", ab |-> "4", r |-> "1", h |-> "2",
        hr |-> "1", rbi |-> "3", bb |-> "0", sb |-> "0" ],
      [ name |-> "Soto", position |-> "RF", ab |-> "3", r |-> "0", h |-> "1",
        hr |-> "0", rbi |-> "0", bb |-> "1", sb |-> "1" ],
      [ name |-> "Rice", position |-> "1B", ab |-> "5", r |-> "2", h |-> "3",
        hr |-> "0", rbi |-> "1", bb |-> "0", sb |-> "0" ] }

BatterHeader ==
    [ name |-> "Batters", position |-> "", ab |-> "AB", r |-> "R", h |-> "H",
      hr |-> "HR", rbi |-> "RBI", bb |-> "BB", sb |-> "SB" ]

\* Participant rows of awayPitchers / homePitchers.  No player is called Cole.
PitcherRows ==
    { [ name |-> "Soto", ip |-> "4.0", h |-> "2", r |-> "2", er |-> "2",
        bb |-> "1", k |-> "7", note |-> "(W, 1-0)" ],
      [ name |-> "Cole", ip |-> "1.0", h |-> "1", r |-> "0", er |-> "0",
        bb |-> "0", k |-> "1", note |-> "" ] }

PitcherHeader ==
    [ name |-> "Pitchers", ip |-> "IP", h |-> "H", r |-> "R", er |-> "ER",
      bb |-> "BB", k |-> "K", note |-> "" ]

\* What statsapi.boxscore_data may return (lines 180, 201): each list opens
\* with its header row.
BoxScores ==
    [ playerInfo   : DistinctSeqs(Players, MaxPlayers),
      awayBatters  : { << BatterHeader >> \o q : q \in DistinctSeqs(BatterRows, MaxRows) },
      homeBatters  : { << BatterHeader >> \o q : q \in DistinctSeqs(BatterRows, MaxRows) },
      awayPitchers : { << PitcherHeader >> \o q : q \in DistinctSeqs(PitcherRows, MaxRows) },
      homePitchers : { << PitcherHeader >> \o q : q \in DistinctSeqs(PitcherRows, MaxRows) },
      teamInfo     : { [ away |-> "Yankees", home |-> "Orioles" ] } ]

\* DataFrame.iloc[1:] (lines 183, 186, 204, 207): all rows but the first.
Iloc1(rows) == SubSeq(rows, 2, Len(rows))

\* box['team_name'] = ... (lines 184, 187, 205, 208): one more column, the
\* same value in every row.
WithTeam(rows, team) ==
    [ i \in 1..Len(rows) |-> [ row |-> rows[i], team_name |-> team ] ]

\* The pairs (left row, right row) that DataFrame.merge with its default
\* how='inner' keeps (lines 189, 210): for every left row in order, every
\* right row whose boxscoreName equals the left row's name, in order.
RECURSIVE MatchesOf(_, _)
MatchesOf(left, right) ==
    IF Len(right) = 0 THEN << >>
    ELSE (IF left.row.name = right[1].boxscoreName
             THEN << [ box |-> left, info |-> right[1] ] >>
             ELSE << >>)
         \o MatchesOf(left, Tail(right))

RECURSIVE InnerMerge(_, _)
InnerMerge(left, right) ==
    IF Len(left) = 0 THEN << >>
    ELSE MatchesOf(left[1], right) \o InnerMerge(Tail(left), right)

\* left.merge(player_info_df, left_on='name', right_on='boxscoreName').
\* With an empty playerInfo, pd.DataFrame({}).T.reset_index() has the one
\* column 'index', and the merge raises KeyError: 'boxscoreName'.
Merge(left, right) ==
    IF Len(right) = 0 THEN Raise("KeyError")
    ELSE Return(InnerMerge(left, right))

\* [[columns]].to_dict(orient='records') and json.dumps (lines 190-192): per
\* merged row, the selected columns in the order given.
BattingRecord(m) ==
    << << "team_name", m.box.team_name >>, << "fullName", m.info.fullName >>,
       << "position", m.box.row.position >>, << "ab", m.box.row.ab >>,
       << "r", m.box.row.r >>, << "h", m.box.row.h >>,
       << "hr", m.box.row.hr >>, << "rbi", m.box.row.rbi >>,
       << "bb", m.box.row.bb >>, << "sb", m.box.row.sb >> >>

\* The same for lines 211-213.
PitchingRecord(m) ==
    << << "team_name", m.box.team_name >>, << "fullName", m.info.fullName >>,
       << "ip", m.box.row.ip >>, << "h", m.box.row.h >>,
       << "r", m.box.row.r >>, << "er", m.box.row.er >>,
       << "bb", m.box.row.bb >>, << "k", m.box.row.k >>,
       << "note", m.box.row.note >> >>

\* get_batting_stats (lines 174-192) on the box score of game_id.
get_batting_stats(boxscores) ==
    LET player_info_df == boxscores.playerInfo
        away_batters_box == WithTeam(Iloc1(boxscores.awayBatters),
                                     boxscores.teamInfo.away)
        home_batters_box == WithTeam(Iloc1(boxscores.homeBatters),
                                     boxscores.teamInfo.home)
        batters_box_df == Merge(away_batters_box \o home_batters_box,
                                player_info_df)
    IN  IF batters_box_df.kind = "raise" THEN batters_box_df
        ELSE Return([ i \in 1..Len(batters_box_df.value) |->
                        BattingRecord(batters_box_df.value[i]) ])

\* get_pitching_stats (lines 195-213) on the box score of game_id.
get_pitching_stats(boxscores) ==
    LET player_info_df == boxscores.playerInfo
        away_pitchers_box == WithTeam(Iloc1(boxscores.awayPitchers),
                                      boxscores.teamInfo.away)
        home_pitchers_box == WithTeam(Iloc1(boxscores.homePitchers),
                                      boxscores.teamInfo.home)
        pitchers_box_df == Merge(away_pitchers_box \o home_pitchers_box,
                                 player_info_df)
    IN  IF pitchers_box_df.kind = "raise" THEN pitchers_box_df
        ELSE Return([ i \in 1..Len(pitchers_box_df.value) |->
                        PitchingRecord(pitchers_box_df.value[i]) ])

InitStats ==
    /\ pc = "define"
    /\ bound = {}
    /\ now = FirstDay + 1
    /\ default_date = NoDate
    /\ user_prompt = NoPrompt
    /\ fetch_query = NoQuery
    /\ run_day = NoDate
    /\ game_information = NoText
    /\ batting_stats = NoText
    /\ pitching_stats = NoText
    /\ stats = NoText
    /\ llama_writer = NoText
    /\ gemma_writer = NoText
    /\ mixtral_writer = NoText
    /\ editor_inputs = << >>
    /\ editor = NoText
    /\ printed = << >>
    /\ calls = [ u \in Units |-> 0 ]
    /\ inputs = [ u \in Units |-> NoText ]
    /\ completed = << >>
    /\ error = NoError
    /\ tool_pc = "call"
    /\ tool_in \in [ fn : { "pending" }, boxscores : BoxScores ]
    /\ tool_out = NoToolOut

\* One call of get_batting_stats(game_id).
GetBattingStats ==
    /\ tool_pc = "call"
    /\ tool_in.fn = "pending"
    /\ tool_in' = [ tool_in EXCEPT !.fn = "get_batting_stats" ]
    /\ tool_out' = get_batting_stats(tool_in.boxscores)
    /\ tool_pc' = "returned"
    /\ UNCHANGED << pc, now, pipelineData >>

\* One call of get_pitching_stats(game_id).
GetPitchingStats ==
    /\ tool_pc = "call"
    /\ tool_in.fn = "pending"
    /\ tool_in' = [ tool_in EXCEPT !.fn = "get_pitching_stats" ]
    /\ tool_out' = get_pitching_stats(tool_in.boxscores)
    /\ tool_pc' = "returned"
    /\ UNCHANGED << pc, now, pipelineData >>

NextStats == GetBattingStats \/ GetPitchingStats

SpecStats == InitStats /\ [][NextStats]_vars

StatsReturned ==
    tool_pc = "returned"
        /\ tool_in.fn \in { "get_batting_stats", "get_pitching_stats" }

\* The participant rows the call read: both sides, headers left out.
ParticipantRows ==
    IF tool_in.fn = "get_batting_stats"
    THEN Iloc1(tool_in.boxscores.awayBatters) \o Iloc1(tool_in.boxscores.homeBatters)
    ELSE Iloc1(tool_in.boxscores.awayPitchers) \o Iloc1(tool_in.boxscores.homePitchers)

RowNames == { ParticipantRows[i].name : i \in DOMAIN ParticipantRows }

InfoNames ==
    { tool_in.boxscores.playerInfo[i].boxscoreName :
        i \in DOMAIN tool_in.boxscores.playerInfo }

\* The fullNames of the players whose boxscoreName is in both sources.
JoinedFullNames ==
    { tool_in.boxscores.playerInfo[i].fullName :
        i \in { k \in DOMAIN tool_in.boxscores.playerInfo :
                  tool_in.boxscores.playerInfo[k].boxscoreName \in RowNames } }

\* Field `key` of a dumped record.
FieldOf(rec, key) ==
    LET i == CHOOSE k \in DOMAIN rec : rec[k][1] = key IN rec[i][2]

RecordFullNames ==
    { FieldOf(tool_out.value[i], "fullName") : i \in DOMAIN tool_out.value }

SomeNameUnmatched == RowNames # InfoNames

\* C10: rows and playerInfo entries without a counterpart are dropped, no
\* error is raised, and every returned record comes from a name present in
\* both sources (and every such name is returned).
C10_UnmatchedDroppedNoError ==
    (StatsReturned /\ SomeNameUnmatched)
        => /\ tool_out.kind = "return"
           /\ RecordFullNames = JoinedFullNames

\* The same, for a playerInfo that has at least one entry: the inner join
\* of lines 189 and 210 drops the unmatched names silently.
UnmatchedDroppedWhenPlayerInfoPresent ==
    (StatsReturned /\ SomeNameUnmatched /\ Len(tool_in.boxscores.playerInfo) > 0)
        => /\ tool_out.kind = "return"
           /\ RecordFullNames = JoinedFullNames

\* A participant row without counterpart was read and dropped, next to a
\* row that was kept.
UnmatchedDroppedReached ==
    /\ StatsReturned
    /\ "Rice" \in RowNames
    /\ "Soto" \in RowNames \cap InfoNames
    /\ tool_out.kind = "return"
    /\ Len(tool_out.value) = 1

----------------------------------------------------------------------------
(* get_game_info on a schedule with matching entries.                      *)

SomeEntryMentions(sched, fragment) ==
    \E k \in DOMAIN sched : Mentions(sched[k].summary, fragment)

\* The position of the first entry, in schedule order, that mentions the
\* fragment.
FirstMention(sched, fragment) ==
    CHOOSE k \in DOMAIN sched :
        /\ Mentions(sched[k].summary, fragment)
        /\ \A j \in 1..(k - 1) : ~Mentions(sched[j].summary, fragment)

\* C11: when at least one schedule entry mentions the fragment (letter case
\* ignored), get_game_info returns the seven fields, every one of them
\* taken from the first such entry in schedule order.
C11_FieldsOfFirstMatch ==
    (FetchReturned /\ SomeEntryMentions(tool_in.sched, tool_in.team_name))
        => /\ tool_out.kind = "return"
           /\ Len(tool_out.value) = 7
           /\ LET g == tool_in.sched[FirstMention(tool_in.sched, tool_in.team_name)]
                  doc == tool_out.value
              IN  /\ FieldOf(doc, "game_id") = << "str", ToString(g.game_id) >>
                  /\ FieldOf(doc, "home_team") = << "str", g.home_name >>
                  /\ FieldOf(doc, "home_score") = << "num", g.home_score >>
                  /\ FieldOf(doc, "away_team") = << "str", g.away_name >>
                  /\ FieldOf(doc, "away_score") = << "num", g.away_score >>
                  /\ FieldOf(doc, "winning_team") = << "str", g.winning_team >>
                  /\ FieldOf(doc, "series_status") = << "str", g.series_status >>

\* C11 witness: a fragment whose letter case differs from the summaries'
\* and that two entries of the schedule mention; a document was returned.
C11_Witness ==
    /\ FetchReturned
    /\ tool_in.team_name = << "y", "a" >>
    /\ Len(tool_in.sched) > 1
    /\ \A k \in DOMAIN tool_in.sched :
          Mentions(tool_in.sched[k].summary, tool_in.team_name)
    /\ tool_out.kind = "return"

\* The first match is not the first entry of the schedule.
C11_LaterEntryReached ==
    /\ FetchReturned
    /\ SomeEntryMentions(tool_in.sched, tool_in.team_name)
    /\ FirstMention(tool_in.sched, tool_in.team_name) > 1
    /\ tool_out.kind = "return"

\* Exactly one entry matches.
C11_SingleMatchReached ==
    /\ FetchReturned
    /\ Cardinality({ k \in DOMAIN tool_in.sched :
                       Mentions(tool_in.sched[k].summary, tool_in.team_name) }) = 1
    /\ Len(tool_in.sched) > 1
    /\ tool_out.kind = "return"

----------------------------------------------------------------------------
(* Records per participant row in get_batting_stats / get_pitching_stats.  *)

\* The participant rows of one side that the call read, header left out.
SideRows(side) ==
    IF tool_in.fn = "get_batting_stats"
    THEN Iloc1(IF side = "away" THEN tool_in.boxscores.awayBatters
                                ELSE tool_in.boxscores.homeBatters)
    ELSE Iloc1(IF side = "away" THEN tool_in.boxscores.awayPitchers
                                ELSE tool_in.boxscores.homePitchers)

\* The returned records that carry the columns of `row` of `side`.  The rows
\* of one side differ from one another in these columns.
RecordsOfRow(side, row) ==
    { i \in DOMAIN tool_out.value :
        /\ FieldOf(tool_out.value[i], "team_name") = tool_in.boxscores.teamInfo[side]
        /\ FieldOf(tool_out.value[i], "h") = row.h
        /\ FieldOf(tool_out.value[i], "r") = row.r
        /\ FieldOf(tool_out.value[i], "bb") = row.bb }

\* C12: the returned records hold at most one record per participant row of
\* the away and home lists, also when two playerInfo entries share a
\* boxscoreName.
C12_AtMostOneRecordPerRow ==
    (StatsReturned /\ tool_out.kind = "return")
        => \A side \in { "away", "home" } :
              \A k \in DOMAIN SideRows(side) :
                  Cardinality(RecordsOfRow(side, SideRows(side)[k])) <= 1

\* With boxscoreNames that differ from entry to entry the join yields at
\* most one record per participant row.
OneRecordPerRowWhenNamesUnique ==
    (StatsReturned /\ tool_out.kind = "return"
       /\ \A i, j \in DOMAIN tool_in.boxscores.playerInfo :
             i # j => tool_in.boxscores.playerInfo[i].boxscoreName
                        # tool_in.boxscores.playerInfo[j].boxscoreName)
        => \A side \in { "away", "home" } :
              \A k \in DOMAIN SideRows(side) :
                  Cardinality(RecordsOfRow(side, SideRows(side)[k])) <= 1

====
